---- MODULE Spec2Model ----
(***************************************************************************)
(* Model of pickaxe_generic: the entity store ChemNetworkBin (network.py)  *)
(* and the metadata resolution pipeline (metadata.py).                     *)
(*                                                                         *)
(* Handles are the 0-based Python list indices; a Python list is a TLA+    *)
(* sequence, so list[h] is seq[h + 1].  A dict is a function whose domain  *)
(* is its key set.  Optional values are sets: None is {} and a present     *)
(* value v is {v}.                                                         *)
(***************************************************************************)
EXTENDS Integers, Sequences, FiniteSets, TLC

(***************************************************************************)
(* Bounds of the model.                                                    *)
(***************************************************************************)
\* cap on the number of registered entities (molecules + operators + reactions)
MaxEntities == 4
\* cap on the length of the reaction registry
MaxRxns == 2
\* most items in the stream handed to an analysis pipeline
MaxStream == 3
\* most steps in a chain built with >>
MaxSteps == 2

\* identities (uid) of the molecules and operators offered to the store
MolIds == {"m1", "m2", "m3"}
OpIds == {"O", "P"}

\* Optional[...]
None == {}
Some(x) == {x}
TheValue(opt) == CHOOSE x \in opt : TRUE

\* metadata dicts handed to add_mol / add_op / add_rxn
EmptyDict == [k \in {} |-> 0]
MetaDicts == {[k \in {"tag"} |-> 1]}
MetaArgs == {None} \cup {Some(d) : d \in MetaDicts}

\* the (operator handle, reactant handles, product handles) offered to
\* add_rxn: triples that differ in the operator only, in the order of the
\* reactants only, in the order of the products only, and two with an empty
\* side
RxnCalls == { <<0, <<0, 1>>, <<0, 1>>>>, <<1, <<0, 1>>, <<0, 1>>>>,
              <<0, <<1, 0>>, <<0, 1>>>>, <<0, <<0, 1>>, <<1, 0>>>>,
              <<0, <<>>, <<0>>>>, <<1, <<0>>, <<>>>> }

\* metadata property keys declared by compositors
Keys == {"mass", "charge"}

\* identities, values and resolvers of metadata fragments
FragIds == {"m1", "m2"}
FragValues == {1, 2}
Resolvers == {"max", "add", "first"}

VARIABLES
    mol_list, op_list, rxn_list,
    mol_map, op_map, rxn_map,
    mol_meta, op_meta, rxn_meta,
    mol_producers, mol_consumers,
    compat_table,
    call, ev, ret, err,
    ka, kb, kres,
    in_a, in_b, obj_a, obj_b, sret,
    st_a, st_b, st_res,
    fa, fb, fc, fresolver, forder, fres,
    c_kind, c_calc, c_rxn, c_calls, c_res, c_keys,
    mm_i1, mm_i2, mm_res,
    p_in, p_pred, p_kind, p_calc, f_out, pred_log,
    a_phase, comp_log, prop_map, a_info, a_out, a_err,
    lib_kind, lib_lookup, lib_call,
    fl_steps, fl_streams, fl_err

store == <<mol_list, op_list, rxn_list, mol_map, op_map, rxn_map,
           mol_meta, op_meta, rxn_meta, mol_producers, mol_consumers,
           compat_table>>
storevars == <<mol_list, op_list, rxn_list, mol_map, op_map, rxn_map,
          mol_meta, op_meta, rxn_meta, mol_producers, mol_consumers,
          compat_table, call, ev, ret, err>>
keyvars == <<ka, kb, kres>>
mergevars == <<in_a, in_b, obj_a, obj_b, sret>>
statevars == <<st_a, st_b, st_res>>
chainvars == <<fa, fb, fc, fresolver, forder, fres>>
compvars == <<c_kind, c_calc, c_rxn, c_calls, c_res, c_keys>>
mmdvars == <<mm_i1, mm_i2, mm_res>>
pipevars == <<p_in, p_pred, p_kind, p_calc, f_out, pred_log,
              a_phase, comp_log, prop_map, a_info, a_out, a_err>>
libvars == <<lib_kind, lib_lookup, lib_call>>
flowvars == <<fl_steps, fl_streams, fl_err>>
vars == <<storevars, keyvars, mergevars, statevars, chainvars, compvars, mmdvars,
          pipevars,
          libvars,
          flowvars>>
\* the variables each specification leaves alone
NotLib == <<storevars, keyvars, mergevars, statevars, chainvars, compvars, mmdvars, pipevars, flowvars>>
NotFlow == <<storevars, keyvars, mergevars, statevars, chainvars, compvars, mmdvars, pipevars, libvars>>
NotStore == <<keyvars, mergevars, statevars, chainvars, compvars, mmdvars, pipevars, libvars, flowvars>>
NotKeys == <<storevars, mergevars, statevars, chainvars, compvars, mmdvars, pipevars, libvars, flowvars>>
NotMerge == <<storevars, keyvars, statevars, chainvars, compvars, mmdvars, pipevars, libvars, flowvars>>
NotState == <<storevars, keyvars, mergevars, chainvars, compvars, mmdvars, pipevars, libvars, flowvars>>
NotPipe == <<storevars, keyvars, mergevars, statevars, chainvars, compvars, mmdvars, libvars, flowvars>>
NotMmd == <<storevars, keyvars, mergevars, statevars, chainvars, compvars, pipevars, libvars, flowvars>>
NotComp == <<storevars, keyvars, mergevars, statevars, chainvars, mmdvars, pipevars, libvars, flowvars>>
NotChain == <<storevars, keyvars, mergevars, statevars, compvars, mmdvars, pipevars, libvars, flowvars>>

(***************************************************************************)
(* Helpers for Python built-ins.                                           *)
(***************************************************************************)
Range(f) == {f[x] : x \in DOMAIN f}
\* a max with a default of 0 for the empty sequence
PyMax_zero(s) ==
    IF s = <<>> THEN Some(0)
    ELSE Some(CHOOSE x \in Range(s) : \A y \in Range(s) : y <= x)
\* max(s) of a sequence of integers: None stands for the ValueError that
\* max() raises on an empty sequence
PyMax(s) ==
    IF s = <<>> THEN None
    ELSE Some(CHOOSE x \in Range(s) : \A y \in Range(s) : y <= x)
\* dict(meta) / {} for an optional metadata argument
DictOf(meta) == IF meta = None THEN EmptyDict ELSE TheValue(meta)
\* d[k] = v for one new key
DictPut(d, k, v) == [x \in DOMAIN d \cup {k} |-> IF x = k THEN v ELSE d[x]]

(***************************************************************************)
(* The operator capability interface: arity (len(op)) and the slot         *)
(* predicate op.compat(mol, argnum).                                       *)
(***************************************************************************)
OpArity(op) == IF op = "O" THEN 2 ELSE 1
Compat(op, mol, argnum) ==
    IF op = "O"
    THEN \/ argnum = 0 /\ mol \in {"m1", "m2"}
         \/ argnum = 1 /\ mol \in {"m2", "m3"}
    ELSE argnum = 0 /\ mol = "m3"

\* a reaction key that forgets the order of the reactants
SortPair(s) == IF Len(s) = 2 /\ s[1] > s[2] THEN <<s[2], s[1]>> ELSE s
Reaction_sorted(op, reactants, products) ==
    [operator |-> op, reactants |-> SortPair(reactants), products |-> products]

Reaction(op, reactants, products) ==
    [operator |-> op, reactants |-> reactants, products |-> products]

\* the last call made on the store: function name and identifying arguments
NoCall == [fn |-> "none", uid |-> "", op |-> -1,
           reactants |-> <<>>, products |-> <<>>]
MolCall(mol) == [fn |-> "add_mol", uid |-> mol, op |-> -1,
                 reactants |-> <<>>, products |-> <<>>]
OpCall(op) == [fn |-> "add_op", uid |-> op, op |-> -1,
               reactants |-> <<>>, products |-> <<>>]
RxnCall(op, reactants, products) ==
    [fn |-> "add_rxn", uid |-> "", op |-> op,
     reactants |-> reactants, products |-> products]

NumEntities == Len(mol_list) + Len(op_list) + Len(rxn_list)

StoreInit ==
    /\ mol_list = <<>>
    /\ op_list = <<>>
    /\ rxn_list = <<>>
    /\ mol_map = EmptyDict
    /\ op_map = EmptyDict
    /\ rxn_map = EmptyDict
    /\ mol_meta = <<>>
    /\ op_meta = <<>>
    /\ rxn_meta = <<>>
    /\ mol_producers = EmptyDict
    /\ mol_consumers = EmptyDict
    /\ compat_table = <<>>

\* a slot test that always asks about slot 0
CompatWithMol_slot0(mol, mol_index) ==
    [i \in DOMAIN op_list |->
        [a \in 1..OpArity(op_list[i]) |->
            IF Compat(op_list[i], mol, 0)
            THEN Append(compat_table[i][a], mol_index)
            ELSE compat_table[i][a]]]

\* the compatibility rows after a new molecule with handle mol_index;
\* enumerate(self.ops) walks the operator registry in handle order
CompatWithMol(mol, mol_index) ==
    [i \in DOMAIN op_list |->
        [a \in 1..OpArity(op_list[i]) |->
            IF Compat(op_list[i], mol, a - 1)
            THEN Append(compat_table[i][a], mol_index)
            ELSE compat_table[i][a]]]

\* an insert without the identity check
add_mol_nodedup(mol, meta) ==
    /\ NumEntities < MaxEntities
    /\ mol_list' = Append(mol_list, mol)
    /\ mol_map' = DictPut(mol_map, mol, Len(mol_list))
    /\ mol_meta' = Append(mol_meta, DictOf(meta))
    /\ compat_table' = CompatWithMol(mol, Len(mol_list))
    /\ ret' = Len(mol_list)
    /\ err' = "none"
    /\ ev' = "mol_new"
    /\ call' = MolCall(mol)
    /\ UNCHANGED <<op_list, rxn_list, op_map, rxn_map, op_meta,
                   rxn_meta, mol_producers, mol_consumers>>

add_mol(mol, meta) ==
    IF mol \in DOMAIN mol_map
    THEN /\ ret' = mol_map[mol]
         /\ err' = "none"
         /\ ev' = "mol_dup"
         /\ call' = MolCall(mol)
         /\ UNCHANGED store
    ELSE /\ NumEntities < MaxEntities
         /\ mol_list' = Append(mol_list, mol)
         /\ mol_map' = DictPut(mol_map, mol, Len(mol_list))
         /\ mol_meta' = Append(mol_meta, DictOf(meta))
         /\ compat_table' = CompatWithMol(mol, Len(mol_list))
         /\ ret' = Len(mol_list)
         /\ err' = "none"
         /\ ev' = "mol_new"
         /\ call' = MolCall(mol)
         /\ UNCHANGED <<op_list, rxn_list, op_map, rxn_map, op_meta,
                        rxn_meta, mol_producers, mol_consumers>>

\* a selection that lists the latest molecule first
SelectCompat_reversed(op, argnum, n) ==
    LET F[k \in 0..n] ==
            IF k = 0 THEN <<>>
            ELSE IF Compat(op, mol_list[k], argnum)
                 THEN <<k - 1>> \o F[k - 1]
                 ELSE F[k - 1]
    IN F[n]

\* the handles of the registered molecules that fit slot argnum of op, in
\* registry order
SelectCompat(op, argnum, n) ==
    LET F[k \in 0..n] ==
            IF k = 0 THEN <<>>
            ELSE IF Compat(op, mol_list[k], argnum)
                 THEN Append(F[k - 1], k - 1)
                 ELSE F[k - 1]
    IN F[n]

CompatRow(op) ==
    [a \in 1..OpArity(op) |-> SelectCompat(op, a - 1, Len(mol_list))]

\* an insert that takes the handle after the append
add_op_lateindex(op, meta) ==
    IF op \in DOMAIN op_map
    THEN /\ ret' = op_map[op]
         /\ err' = "none"
         /\ ev' = "op_dup"
         /\ call' = OpCall(op)
         /\ UNCHANGED store
    ELSE /\ NumEntities < MaxEntities
         /\ op_list' = Append(op_list, op)
         /\ op_map' = DictPut(op_map, op, Len(op_list) + 1)
         /\ op_meta' = Append(op_meta, DictOf(meta))
         /\ compat_table' = Append(compat_table, CompatRow(op))
         /\ ret' = Len(op_list) + 1
         /\ err' = "none"
         /\ ev' = "op_new"
         /\ call' = OpCall(op)
         /\ UNCHANGED <<mol_list, rxn_list, mol_map, rxn_map, mol_meta,
                        rxn_meta, mol_producers, mol_consumers>>

add_op(op, meta) ==
    IF op \in DOMAIN op_map
    THEN /\ ret' = op_map[op]
         /\ err' = "none"
         /\ ev' = "op_dup"
         /\ call' = OpCall(op)
         /\ UNCHANGED store
    ELSE /\ NumEntities < MaxEntities
         /\ op_list' = Append(op_list, op)
         /\ op_map' = DictPut(op_map, op, Len(op_list))
         /\ op_meta' = Append(op_meta, DictOf(meta))
         /\ compat_table' = Append(compat_table, CompatRow(op))
         /\ ret' = Len(op_list)
         /\ err' = "none"
         /\ ev' = "op_new"
         /\ call' = OpCall(op)
         /\ UNCHANGED <<mol_list, rxn_list, mol_map, rxn_map, mol_meta,
                        rxn_meta, mol_producers, mol_consumers>>

add_rxn(op, reactants, products, meta) ==
    LET rxn == Reaction(op, reactants, products) IN
    IF rxn \in DOMAIN rxn_map
    THEN /\ ret' = rxn_map[rxn]
         /\ err' = "none"
         /\ ev' = "rxn_dup"
         /\ call' = RxnCall(op, reactants, products)
         /\ UNCHANGED store
    ELSE IF PyMax(reactants) = None \/ PyMax(products) = None
    THEN \* max(max(reactants), max(products)) raises before any mutation
         /\ ret' = -1
         /\ err' = "ValueError"
         /\ ev' = "rxn_err"
         /\ call' = RxnCall(op, reactants, products)
         /\ UNCHANGED store
    ELSE \* both sanity checks build an IndexError and drop it: nothing is
         \* raised, whatever the largest handle and op are
         /\ NumEntities < MaxEntities
         /\ Len(rxn_list) < MaxRxns
         /\ rxn_list' = Append(rxn_list, rxn)
         /\ rxn_map' = DictPut(rxn_map, rxn, Len(rxn_list))
         /\ op_meta' = Append(op_meta, DictOf(meta))
         /\ ret' = Len(rxn_list)
         /\ err' = "none"
         /\ ev' = "rxn_new"
         /\ call' = RxnCall(op, reactants, products)
         /\ UNCHANGED <<mol_list, op_list, mol_map, op_map, mol_meta,
                        rxn_meta, mol_producers, mol_consumers,
                        compat_table>>

(***************************************************************************)
(* metadata.py: declared output keys of compositors.                       *)
(***************************************************************************)
KeyOutput(mol_keys, op_keys, rxn_keys) ==
    [mol_keys |-> mol_keys, op_keys |-> op_keys, rxn_keys |-> rxn_keys]
NoKeys == KeyOutput({}, {}, {})
KeyOutputs == [mol_keys : SUBSET Keys, op_keys : SUBSET Keys,
               rxn_keys : SUBSET Keys]

\* the outcome of an expression: a value, or the exception it raised with
\* the keys its message names
Returned(v) == [status |-> "ok", conflict |-> {}, val |-> v]
Raised(e, keys) == [status |-> e, conflict |-> keys, val |-> NoKeys]
Pending == [status |-> "pending", conflict |-> {}, val |-> NoKeys]

\* a collision check that also fires when nothing is shared
KeyOutput_and_ge(self, other) ==
    LET new_mol_keys == self.mol_keys \cup other.mol_keys
        new_op_keys == self.op_keys \cup other.op_keys
        new_rxn_keys == self.rxn_keys \cup other.rxn_keys
    IN  IF Cardinality(new_mol_keys) >=
               Cardinality(self.mol_keys) + Cardinality(other.mol_keys)
        THEN Raised("KeyError", self.mol_keys \cap other.mol_keys)
        ELSE IF Cardinality(new_op_keys) >=
                    Cardinality(self.op_keys) + Cardinality(other.op_keys)
        THEN Raised("KeyError", self.op_keys \cap other.op_keys)
        ELSE IF Cardinality(new_rxn_keys) >=
                    Cardinality(self.rxn_keys) + Cardinality(other.rxn_keys)
        THEN Raised("KeyError", self.rxn_keys \cap other.rxn_keys)
        ELSE Returned(KeyOutput(new_mol_keys, new_op_keys, new_rxn_keys))

\* KeyOutput.__and__
KeyOutput_and(self, other) ==
    LET new_mol_keys == self.mol_keys \cup other.mol_keys
        new_op_keys == self.op_keys \cup other.op_keys
        new_rxn_keys == self.rxn_keys \cup other.rxn_keys
    IN  IF Cardinality(new_mol_keys) >
               Cardinality(self.mol_keys) + Cardinality(other.mol_keys)
        THEN Raised("KeyError", self.mol_keys \cap other.mol_keys)
        ELSE IF Cardinality(new_op_keys) >
                    Cardinality(self.op_keys) + Cardinality(other.op_keys)
        THEN Raised("KeyError", self.op_keys \cap other.op_keys)
        ELSE IF Cardinality(new_rxn_keys) >
                    Cardinality(self.rxn_keys) + Cardinality(other.rxn_keys)
        THEN Raised("KeyError", self.rxn_keys \cap other.rxn_keys)
        ELSE Returned(KeyOutput(new_mol_keys, new_op_keys, new_rxn_keys))

KeysIdle ==
    /\ ka = NoKeys
    /\ kb = NoKeys
    /\ kres = Pending

KeysInit ==
    /\ ka \in KeyOutputs
    /\ kb \in KeyOutputs
    /\ kres = Pending

\* kres = ka & kb
KeyAnd ==
    /\ kres = Pending
    /\ kres' = KeyOutput_and(ka, kb)
    /\ UNCHANGED <<ka, kb>>

(***************************************************************************)
(* metadata.py: MetaPropertyStateSingleProp, a mutable fragment for one    *)
(* property key: a dict identity -> value and a resolver.                  *)
(***************************************************************************)
\* a resolver that keeps its first argument whatever its name
Resolve_first(resolver, x, y) == x

Resolve(resolver, x, y) ==
    CASE resolver = "max" -> (IF x >= y THEN x ELSE y)
      [] resolver = "add" -> x + y
      [] resolver = "first" -> x

SingleProp(data, resolver) == [data |-> data, resolver |-> resolver]
Dicts(ids, values) == UNION {[d -> values] : d \in SUBSET ids}
SingleProps == {SingleProp(d, r) : d \in Dicts(FragIds, FragValues),
                                   r \in Resolvers}

\* d.update(e)
DictUpdate(d, e) ==
    [x \in DOMAIN d \cup DOMAIN e |-> IF x \in DOMAIN e THEN e[x] ELSE d[x]]

\* the outcome of self | other: both objects after the call and which of
\* them is returned
OrResult(self, other, which) == [self |-> self, other |-> other, ret |-> which]

\* a merge that keeps the resolver of self when other is empty
SingleProp_or_keep(self, other) ==
    IF DOMAIN self.data = {}
    THEN OrResult(self, other, "other")
    ELSE IF DOMAIN other.data = {}
    THEN OrResult(self, other, "self")
    ELSE LET common_keys == DOMAIN self.data \cap DOMAIN other.data
             resolved_props ==
                 [k \in common_keys |->
                     Resolve(self.resolver, self.data[k], other.data[k])]
         IN  OrResult(self,
                      SingleProp(DictUpdate(DictUpdate(other.data, self.data),
                                            resolved_props),
                                 other.resolver),
                      "other")

\* a merge that hands the two values to the resolver in the other order
SingleProp_or_swap(self, other) ==
    IF DOMAIN self.data = {}
    THEN OrResult(self, other, "other")
    ELSE IF DOMAIN other.data = {}
    THEN OrResult(SingleProp(self.data, other.resolver), other, "self")
    ELSE LET common_keys == DOMAIN self.data \cap DOMAIN other.data
             resolved_props ==
                 [k \in common_keys |->
                     Resolve(self.resolver, other.data[k], self.data[k])]
         IN  OrResult(self,
                      SingleProp(DictUpdate(DictUpdate(other.data, self.data),
                                            resolved_props),
                                 other.resolver),
                      "other")

\* MetaPropertyStateSingleProp.__or__
SingleProp_or(self, other) ==
    IF DOMAIN self.data = {}
    THEN OrResult(self, other, "other")
    ELSE IF DOMAIN other.data = {}
    THEN OrResult(SingleProp(self.data, other.resolver), other, "self")
    ELSE LET common_keys == DOMAIN self.data \cap DOMAIN other.data
             resolved_props ==
                 [k \in common_keys |->
                     Resolve(self.resolver, self.data[k], other.data[k])]
         IN  IF common_keys = {}
             THEN OrResult(self,
                           SingleProp(DictUpdate(other.data, self.data),
                                      other.resolver),
                           "other")
             ELSE OrResult(self,
                           SingleProp(DictUpdate(DictUpdate(other.data,
                                                            self.data),
                                                 resolved_props),
                                      other.resolver),
                           "other")

NoProp == SingleProp(EmptyDict, "max")

MergeIdle ==
    /\ in_a = NoProp
    /\ in_b = NoProp
    /\ obj_a = NoProp
    /\ obj_b = NoProp
    /\ sret = "pending"

MergeInit ==
    /\ in_a \in SingleProps
    /\ in_b \in SingleProps
    /\ obj_a = in_a
    /\ obj_b = in_b
    /\ sret = "pending"

\* obj_a | obj_b on two fresh objects
MergeOr ==
    /\ sret = "pending"
    /\ LET r == SingleProp_or(obj_a, obj_b)
       IN  /\ obj_a' = r.self
           /\ obj_b' = r.other
           /\ sret' = r.ret
    /\ UNCHANGED <<in_a, in_b>>

\* the object a | b evaluated to
MergeResult == IF sret = "self" THEN obj_a ELSE obj_b

(***************************************************************************)
(* metadata.py: MetaPropertyState, one dict property key -> fragment for   *)
(* each of the molecule, operator and reaction partitions.                 *)
(***************************************************************************)
MetaState(mol_info, op_info, rxn_info) ==
    [mol_info |-> mol_info, op_info |-> op_info, rxn_info |-> rxn_info]
EmptyState == MetaState(EmptyDict, EmptyDict, EmptyDict)

\* the fragment self | other evaluates to
OrValue(self, other) ==
    LET r == SingleProp_or(self, other)
    IN  IF r.ret = "self" THEN r.self ELSE r.other

\* one partition of MetaPropertyState.__or__: the partition of self after
\* the call (the three partitions run the same statements)
Info_or(self_info, other_info) ==
    IF DOMAIN self_info = {}
    THEN other_info
    ELSE IF DOMAIN other_info # {}
    THEN LET common_keys == DOMAIN self_info \cap DOMAIN other_info
             resolved_info ==
                 [k \in common_keys |-> OrValue(self_info[k], other_info[k])]
         IN  IF common_keys = {}
             THEN DictUpdate(self_info, other_info)
             ELSE DictUpdate(DictUpdate(self_info, other_info), resolved_info)
    ELSE self_info

\* a merge whose operator partition reads the molecule partition of other
MetaState_or_mixed(self, other) ==
    MetaState(Info_or(self.mol_info, other.mol_info),
              Info_or(self.op_info, other.mol_info),
              Info_or(self.rxn_info, other.rxn_info))

\* MetaPropertyState.__or__: self after the call, which is what it returns
MetaState_or(self, other) ==
    MetaState(Info_or(self.mol_info, other.mol_info),
              Info_or(self.op_info, other.op_info),
              Info_or(self.rxn_info, other.rxn_info))

\* the fragments and states offered to the full-state merge
StateProps == { SingleProp([h \in {"m1"} |-> 1], "add"),
                SingleProp([h \in {"m1", "m2"} |-> IF h = "m1" THEN 2 ELSE 1],
                           "first"),
                SingleProp(EmptyDict, "max") }
Infos(keys) == UNION {[d -> StateProps] : d \in SUBSET keys}
MetaStates == {MetaState(m, o, r) : m \in Infos(Keys), o \in Infos({"mass"}),
                                    r \in Infos({"mass"})}

StateIdle ==
    /\ st_a = EmptyState
    /\ st_b = EmptyState
    /\ st_res = None

StateInit ==
    /\ st_a \in MetaStates
    /\ st_b \in MetaStates
    /\ st_res = None

\* st_res = st_a | st_b on two fresh states
StateOr ==
    /\ st_res = None
    /\ st_res' = Some(MetaState_or(st_a, st_b))
    /\ UNCHANGED <<st_a, st_b>>

(***************************************************************************)
(* Three fragments of one property key merged in every grouping and order. *)
(* Each evaluation builds its operands afresh, so an evaluation is a pure  *)
(* expression over fa, fb, fc.                                             *)
(***************************************************************************)
Permutations3 == { p \in [1..3 -> 1..3] : \A i, j \in 1..3 : i # j => p[i] # p[j] }
Orders == [perm : Permutations3, grouping : {"left", "right"},
           level : {"single", "state"}]
NoOrder == [perm |-> <<1, 2, 3>>, grouping |-> "none", level |-> "none"]
AssocResolvers == {"max", "add"}

\* a state holding the fragment under the property key, as a molecule
\* compositor builds it
StateOf(frag) == MetaState([k \in {"mass"} |-> frag], EmptyDict, EmptyDict)

\* (x | y) | z or x | (y | z) on fragments, and on states wrapping them
Chain(order, x, y, z) ==
    IF order.level = "single"
    THEN IF order.grouping = "left"
         THEN OrValue(OrValue(x, y), z)
         ELSE OrValue(x, OrValue(y, z))
    ELSE LET r == IF order.grouping = "left"
                  THEN MetaState_or(MetaState_or(StateOf(x), StateOf(y)), StateOf(z))
                  ELSE MetaState_or(StateOf(x), MetaState_or(StateOf(y), StateOf(z)))
         IN  r.mol_info["mass"]

ChainIdle ==
    /\ fa = EmptyDict
    /\ fb = EmptyDict
    /\ fc = EmptyDict
    /\ fresolver = "max"
    /\ forder = NoOrder
    /\ fres = None

ChainInit ==
    /\ fa \in Dicts(FragIds, FragValues)
    /\ fb \in Dicts(FragIds, FragValues)
    /\ fc \in Dicts(FragIds, FragValues)
    /\ fresolver \in AssocResolvers
    /\ forder = NoOrder
    /\ fres = None

\* evaluate one grouping of one permutation of the three fragments
ChainOr ==
    /\ fres = None
    /\ \E order \in Orders :
          LET f == <<SingleProp(fa, fresolver), SingleProp(fb, fresolver),
                     SingleProp(fc, fresolver)>>
          IN  /\ forder' = order
              /\ fres' = Some(Chain(order, f[order.perm[1]], f[order.perm[2]],
                                    f[order.perm[3]]).data)
    /\ UNCHANGED <<fa, fb, fc, fresolver>>

(***************************************************************************)
(* metadata.py: the compositors.  A reaction is a ReactionExplicit of data *)
(* packets (handle i, item with its uid, meta); a calculator is its key,   *)
(* its resolver and the value or None it returns for each argument.        *)
(***************************************************************************)
DataPacket(i, uid, meta) == [i |-> i, item |-> [uid |-> uid], meta |-> meta]
ReactionExplicit(operator, reactants, products, reaction_meta) ==
    [operator |-> operator, reactants |-> reactants, products |-> products,
     reaction_meta |-> reaction_meta]

R1 == ReactionExplicit(DataPacket(0, "O", None),
                       <<DataPacket(0, "m1", None),
                         DataPacket(1, "m2", Some([k \in {"tag"} |-> 1]))>>,
                       <<DataPacket(2, "m3", None)>>, None)
R2 == ReactionExplicit(DataPacket(1, "P", None),
                       <<DataPacket(2, "m3", None)>>,
                       <<DataPacket(0, "m1", None), DataPacket(0, "m1", None)>>,
                       Some([k \in {"tag"} |-> 1]))
ExplicitRxns == {R1, R2}

Uids(packets) == [i \in DOMAIN packets |-> packets[i].item.uid]
\* the identity of a reaction: operator uid, reactant uids, product uids
RxnId(rxn) == <<rxn.operator.item.uid, Uids(rxn.reactants), Uids(rxn.products)>>
\* chain(rxn.reactants, rxn.products)
Mols(rxn) == rxn.reactants \o rxn.products

\* {mol.item.uid: calc for mol, calc in ... if calc is not None}: a later
\* molecule of the same uid replaces an earlier one
Props(mols, results) ==
    LET kept == {i \in DOMAIN mols : results[i] # None}
        last(u) == CHOOSE i \in kept :
                      /\ mols[i].item.uid = u
                      /\ \A j \in kept : mols[j].item.uid = u => j <= i
    IN  [u \in {mols[i].item.uid : i \in kept} |-> TheValue(results[last(u)])]

\* what a compositor call does: the calculator calls it makes, in order,
\* and the state it returns
Composed(calls, state) == [calls |-> calls, state |-> state]

MolPropertyCompositor(calc, rxn) ==
    LET mols == Mols(rxn)
        calls == [i \in DOMAIN mols |-> <<mols[i].item.uid>>]
        props == Props(mols, [i \in DOMAIN mols |-> calc.f[calls[i]]])
    IN  Composed(calls, MetaState([k \in {calc.key} |-> SingleProp(props, calc.resolver)],
                                  EmptyDict, EmptyDict))

MolRxnPropertyCompositor(calc, rxn) ==
    LET mols == Mols(rxn)
        calls == [i \in DOMAIN mols |-> <<mols[i].item.uid, RxnId(rxn)>>]
        props == Props(mols, [i \in DOMAIN mols |-> calc.f[calls[i]]])
    IN  Composed(calls, MetaState([k \in {calc.key} |-> SingleProp(props, calc.resolver)],
                                  EmptyDict, EmptyDict))

\* an operator compositor that returns an entry holding nothing when the
\* calculator returns None
OpPropertyCompositor_keepnone(calc, rxn) ==
    LET arg == <<rxn.operator.item.uid>>
        props == IF calc.f[arg] = None THEN EmptyDict
                 ELSE [u \in {rxn.operator.item.uid} |-> TheValue(calc.f[arg])]
    IN  Composed(<<arg>>, MetaState(EmptyDict,
                     [k \in {calc.key} |-> SingleProp(props, calc.resolver)],
                     EmptyDict))

OpPropertyCompositor(calc, rxn) ==
    LET arg == <<rxn.operator.item.uid>>
        result == calc.f[arg]
    IN  IF result = None
        THEN Composed(<<arg>>, EmptyState)
        ELSE LET props == [u \in {rxn.operator.item.uid} |-> TheValue(result)]
             IN  Composed(<<arg>>, MetaState(EmptyDict,
                     [k \in {calc.key} |-> SingleProp(props, calc.resolver)],
                     EmptyDict))

OpRxnPropertyCompositor(calc, rxn) ==
    LET arg == <<rxn.operator.item.uid, RxnId(rxn)>>
        result == calc.f[arg]
    IN  IF result = None
        THEN Composed(<<arg>>, EmptyState)
        ELSE LET props == [u \in {rxn.operator.item.uid} |-> TheValue(result)]
             IN  Composed(<<arg>>, MetaState(EmptyDict,
                     [k \in {calc.key} |-> SingleProp(props, calc.resolver)],
                     EmptyDict))

\* the source of RxnPropertyCompositor repeats MolPropertyCompositor
RxnPropertyCompositor(calc, rxn) ==
    LET mols == Mols(rxn)
        calls == [i \in DOMAIN mols |-> <<mols[i].item.uid>>]
        props == Props(mols, [i \in DOMAIN mols |-> calc.f[calls[i]]])
    IN  Composed(calls, MetaState([k \in {calc.key} |-> SingleProp(props, calc.resolver)],
                                  EmptyDict, EmptyDict))

CompKinds == {"mol", "molrxn", "op", "oprxn", "rxn"}

Compositor(kind, calc, rxn) ==
    CASE kind = "mol" -> MolPropertyCompositor(calc, rxn)
      [] kind = "molrxn" -> MolRxnPropertyCompositor(calc, rxn)
      [] kind = "op" -> OpPropertyCompositor(calc, rxn)
      [] kind = "oprxn" -> OpRxnPropertyCompositor(calc, rxn)
      [] kind = "rxn" -> RxnPropertyCompositor(calc, rxn)

\* the keys property of each compositor
CompositorKeys(kind, calc) ==
    CASE kind \in {"mol", "molrxn"} -> KeyOutput({calc.key}, {}, {})
      [] kind \in {"op", "oprxn"} -> KeyOutput({}, {calc.key}, {})
      [] kind = "rxn" -> KeyOutput({calc.key}, {}, {})

\* the arguments a calculator of each shape is defined on, for the entities
\* of the given reactions; a per-reaction calculator handed a molecule
\* packet returns whatever it returns
CalcArgs(kind, rxns) ==
    CASE kind = "mol" -> {<<u>> : u \in MolIds}
      [] kind = "molrxn" -> {<<u, RxnId(r)>> : u \in MolIds, r \in rxns}
      [] kind = "op" -> {<<u>> : u \in OpIds}
      [] kind = "oprxn" -> {<<u, RxnId(r)>> : u \in OpIds, r \in rxns}
      [] kind = "rxn" -> {RxnId(r) : r \in rxns} \cup {<<u>> : u \in MolIds}
CalcResults == {None, Some(1), Some(2)}
Calcs(kind, rxns) ==
    [key : Keys, resolver : {"max"}, f : [CalcArgs(kind, rxns) -> CalcResults]]
NoCalc == [key |-> "mass", resolver |-> "max", f |-> EmptyDict]

CompIdle ==
    /\ c_kind = "mol"
    /\ c_calc = NoCalc
    /\ c_rxn = R1
    /\ c_calls = <<>>
    /\ c_res = None
    /\ c_keys = None

CompInit ==
    /\ c_kind \in CompKinds
    /\ c_rxn \in ExplicitRxns
    /\ c_calc \in Calcs(c_kind, {c_rxn})
    /\ c_calls = <<>>
    /\ c_res = None
    /\ c_keys = None

\* compositor(rxn)
Compose ==
    /\ c_res = None
    /\ LET r == Compositor(c_kind, c_calc, c_rxn)
       IN  /\ c_calls' = r.calls
           /\ c_res' = Some(r.state)
    /\ UNCHANGED <<c_kind, c_calc, c_rxn, c_keys>>
    /\ UNCHANGED NotComp

\* compositor.keys
ReadKeys ==
    /\ c_keys = None
    /\ c_keys' = Some(CompositorKeys(c_kind, c_calc))
    /\ UNCHANGED <<c_kind, c_calc, c_rxn, c_calls, c_res>>
    /\ UNCHANGED NotComp

(***************************************************************************)
(* metadata.py: _mmd, the union of an entity's existing metadata with the  *)
(* computed one.  A mapping argument is None or Some(dict); the result is  *)
(* wrapped once more so that "not called yet" differs from a None result.  *)
(***************************************************************************)
\* a union in which the entries of the left operand win
mmd_keepfirst(i1, i2) ==
    IF i1 = None
    THEN i2
    ELSE IF i2 = None
    THEN i1
    ELSE Some(DictUpdate(TheValue(i2), TheValue(i1)))

\* i1 | i2 is a new dict with i1's entries updated by i2's; dict(i1) has
\* the entries of i1
mmd(i1, i2) ==
    IF i1 = None
    THEN i2
    ELSE IF i2 = None
    THEN i1
    ELSE Some(DictUpdate(TheValue(i1), TheValue(i2)))

MetaMaps == {None} \cup {Some(d) : d \in Dicts(Keys, FragValues)}

MmdIdle ==
    /\ mm_i1 = None
    /\ mm_i2 = None
    /\ mm_res = None

MmdInit ==
    /\ mm_i1 \in MetaMaps
    /\ mm_i2 \in MetaMaps
    /\ mm_res = None

\* mm_res = _mmd(existing, computed)
Mmd ==
    /\ mm_res = None
    /\ mm_res' = Some(mmd(mm_i1, mm_i2))
    /\ UNCHANGED <<mm_i1, mm_i2>>
    /\ UNCHANGED NotMmd

(***************************************************************************)
(* metadata.py: the analysis pipeline filter_step >> annotate_step over a  *)
(* stream of (reaction, passing) items.  The filter step is a generator:   *)
(* it handles one item each time the annotation step's list(rxns) asks for *)
(* the next one.  The annotation step then reduces the fragments of the    *)
(* passing items and returns the projection generator, whose body runs     *)
(* when the consumer of the pipeline asks for output.                      *)
(***************************************************************************)
Item(rxn, flag) == [rxn |-> rxn, flag |-> flag]
Streams == UNION {[1..n -> {Item(r, b) : r \in ExplicitRxns, b \in BOOLEAN}] :
                  n \in 0..MaxStream}

\* a filter step that forgets the flag it was given
FilterItem_reset(item, pred) ==
    [out |-> Item(item.rxn, RxnId(item.rxn) \in pred), evaluated |-> TRUE]

\* a filter step that evaluates its predicate on every item
FilterItem_eager(item, pred) ==
    [out |-> Item(item.rxn, item.flag /\ RxnId(item.rxn) \in pred),
     evaluated |-> TRUE]

\* one turn of the loop of RxnAnalysisStepFilter.execute: the item yielded
\* and whether self._arg(rxn) was evaluated (or short-circuits)
FilterItem(item, pred) ==
    IF ~item.flag
    THEN [out |-> Item(item.rxn, FALSE), evaluated |-> FALSE]
    ELSE IF ~(RxnId(item.rxn) \in pred)
    THEN [out |-> Item(item.rxn, FALSE), evaluated |-> TRUE]
    ELSE [out |-> Item(item.rxn, TRUE), evaluated |-> TRUE]

\* a generator that takes every item of rxn_list
PassingItems_all(rxn_list_) == [i \in DOMAIN rxn_list_ |-> i]

\* (... for rxn in rxn_list if rxn[1]): the positions taken, in order
PassingItems(rxn_list_) ==
    LET RECURSIVE Take(_)
        Take(n) == IF n = 0 THEN <<>>
                   ELSE IF rxn_list_[n].flag THEN Append(Take(n - 1), n)
                   ELSE Take(n - 1)
    IN  Take(Len(rxn_list_))

\* logreduce(operator.or_, fragments): the fragments combined pairwise with
\* |, in some grouping that keeps their order
RECURSIVE Reductions(_)
Reductions(frags) ==
    IF Len(frags) = 1
    THEN {frags[1]}
    ELSE UNION { {MetaState_or(x, y) :
                     x \in Reductions(SubSeq(frags, 1, k)),
                     y \in Reductions(SubSeq(frags, k + 1, Len(frags)))} :
                 k \in 1..(Len(frags) - 1) }

\* the first loops of metalib_to_rxn_meta over one partition: the per-id
\* dict starts empty and mol_info[mol_id][meta_key] = key_val reads
\* mol_info[mol_id] first, so the first entry raises KeyError (None here)
BuildInfo(info) ==
    IF \E k \in DOMAIN info : DOMAIN info[k].data # {}
    THEN None
    ELSE Some(EmptyDict)

Infos3(mol_info, op_info, rxn_info) ==
    [mol_info |-> mol_info, op_info |-> op_info, rxn_info |-> rxn_info]
NoInfos == Infos3(EmptyDict, EmptyDict, EmptyDict)

\* the three loops in order; None when one of them raises KeyError
BuildInfos(metalib) ==
    IF \/ BuildInfo(metalib.mol_info) = None
       \/ BuildInfo(metalib.op_info) = None
       \/ BuildInfo(metalib.rxn_info) = None
    THEN None
    ELSE Some(Infos3(TheValue(BuildInfo(metalib.mol_info)),
                     TheValue(BuildInfo(metalib.op_info)),
                     TheValue(BuildInfo(metalib.rxn_info))))

\* the body of the loop over rxns in metalib_to_rxn_meta: the reaction
\* yielded, or None when one of the subscript lookups raises KeyError
ProjectRxn(info, rxn) ==
    LET annotate(packet, table) ==
            DataPacket(packet.i, packet.item.uid,
                       mmd(packet.meta, Some(table[packet.item.uid])))
    IN  IF \/ rxn.operator.item.uid \notin DOMAIN info.op_info
           \/ \E i \in DOMAIN Mols(rxn) :
                 Mols(rxn)[i].item.uid \notin DOMAIN info.mol_info
           \/ RxnId(rxn) \notin DOMAIN info.rxn_info
        THEN None
        ELSE Some(ReactionExplicit(
                 annotate(rxn.operator, info.op_info),
                 [i \in DOMAIN rxn.reactants |-> annotate(rxn.reactants[i], info.mol_info)],
                 [i \in DOMAIN rxn.products |-> annotate(rxn.products[i], info.mol_info)],
                 mmd(rxn.reaction_meta, Some(info.rxn_info[RxnId(rxn)]))))

PipeKinds == {"mol", "op"}
PipeCalcs(kind) ==
    [key : {"mass"}, resolver : {"add"},
     f : [CalcArgs(kind, ExplicitRxns) -> {None, Some(1)}]]
Predicates == SUBSET {RxnId(r) : r \in ExplicitRxns}

PipeIdle ==
    /\ p_in = <<>>
    /\ p_pred = {}
    /\ p_kind = "mol"
    /\ p_calc = NoCalc
    /\ f_out = <<>>
    /\ pred_log = <<>>
    /\ a_phase = "idle"
    /\ comp_log = <<>>
    /\ prop_map = None
    /\ a_info = NoInfos
    /\ a_out = <<>>
    /\ a_err = "none"

PipeInit ==
    /\ p_in \in Streams
    /\ p_pred \in Predicates
    /\ p_kind \in PipeKinds
    /\ p_calc \in PipeCalcs(p_kind)
    /\ f_out = <<>>
    /\ pred_log = <<>>
    /\ a_phase = "collect"
    /\ comp_log = <<>>
    /\ prop_map = None
    /\ a_info = NoInfos
    /\ a_out = <<>>
    /\ a_err = "none"

\* list(rxns) takes the next item from the filter step
FilterYield ==
    /\ a_phase = "collect"
    /\ Len(f_out) < Len(p_in)
    /\ LET n == Len(f_out) + 1
           r == FilterItem(p_in[n], p_pred)
       IN  /\ f_out' = Append(f_out, r.out)
           /\ pred_log' = IF r.evaluated THEN Append(pred_log, n) ELSE pred_log
    /\ UNCHANGED <<p_in, p_pred, p_kind, p_calc, a_phase, comp_log, prop_map,
                   a_info, a_out, a_err>>
    /\ UNCHANGED NotPipe

\* an annotation step that reduces what it has received so far
Reduce_early ==
    /\ a_phase = "collect"
    /\ Len(f_out) <= Len(p_in)
    /\ LET taken == PassingItems(f_out)
           frags == [i \in DOMAIN taken |->
                        Compositor(p_kind, p_calc, f_out[taken[i]].rxn).state]
       IN  /\ comp_log' = taken
           /\ \E outcome \in IF taken = <<>>
                             THEN {None, Some(EmptyState)}
                             ELSE {Some(x) : x \in Reductions(frags)} :
                 /\ prop_map' = outcome
                 /\ a_phase' = IF outcome = None THEN "failed" ELSE "project"
                 /\ a_err' = IF outcome = None THEN "reduce_empty" ELSE "none"
    /\ UNCHANGED <<p_in, p_pred, p_kind, p_calc, f_out, pred_log, a_info, a_out>>
    /\ UNCHANGED NotPipe

\* the upstream is exhausted: rxn_list is complete; logreduce draws the
\* fragment of every passing item from the generator and merges them; the
\* projection generator is returned without running.  What logreduce does
\* with no fragment is not known: it returns an empty state or raises.
Reduce ==
    /\ a_phase = "collect"
    /\ Len(f_out) = Len(p_in)
    /\ LET taken == PassingItems(f_out)
           frags == [i \in DOMAIN taken |->
                        Compositor(p_kind, p_calc, f_out[taken[i]].rxn).state]
       IN  /\ comp_log' = taken
           /\ \E outcome \in IF taken = <<>>
                             THEN {None, Some(EmptyState)}
                             ELSE {Some(x) : x \in Reductions(frags)} :
                 /\ prop_map' = outcome
                 /\ a_phase' = IF outcome = None THEN "failed" ELSE "project"
                 /\ a_err' = IF outcome = None THEN "reduce_empty" ELSE "none"
    /\ UNCHANGED <<p_in, p_pred, p_kind, p_calc, f_out, pred_log, a_info, a_out>>
    /\ UNCHANGED NotPipe

\* the consumer asks for the first output item: the projection generator
\* starts and builds its per-identity tables
ProjectBuild ==
    /\ a_phase = "project"
    /\ LET built == BuildInfos(TheValue(prop_map))
       IN  IF built = None
           THEN /\ a_phase' = "failed"
                /\ a_err' = "KeyError"
                /\ UNCHANGED a_info
           ELSE /\ a_phase' = "emit"
                /\ a_info' = TheValue(built)
                /\ UNCHANGED a_err
    /\ UNCHANGED <<p_in, p_pred, p_kind, p_calc, f_out, pred_log, comp_log,
                   prop_map, a_out>>
    /\ UNCHANGED NotPipe

\* the projection generator handles the next item of rxn_list
ProjectYield ==
    /\ a_phase = "emit"
    /\ Len(a_out) < Len(f_out)
    /\ LET item == f_out[Len(a_out) + 1]
           projected == ProjectRxn(a_info, item.rxn)
       IN  IF projected = None
           THEN /\ a_phase' = "failed"
                /\ a_err' = "KeyError"
                /\ UNCHANGED a_out
           ELSE /\ a_out' = Append(a_out, Item(TheValue(projected), item.flag))
                /\ UNCHANGED <<a_phase, a_err>>
    /\ UNCHANGED <<p_in, p_pred, p_kind, p_calc, f_out, pred_log, comp_log,
                   prop_map, a_info>>
    /\ UNCHANGED NotPipe

\* the projection generator is exhausted
ProjectEnd ==
    /\ a_phase = "emit"
    /\ Len(a_out) = Len(f_out)
    /\ a_phase' = "done"
    /\ UNCHANGED <<p_in, p_pred, p_kind, p_calc, f_out, pred_log, comp_log,
                   prop_map, a_info, a_out, a_err>>
    /\ UNCHANGED NotPipe

(***************************************************************************)
(* containers.py: ObjectLibraryBasic and ObjectLibraryKeyVal, a dict from  *)
(* uid to the object (Basic) or to its blob (KeyVal).  A data unit is its  *)
(* uid and its blob; two units of one uid differ in their blob.            *)
(***************************************************************************)
DataUnit(uid, blob) == [uid |-> uid, blob |-> blob]
DataUnits == {DataUnit(u, b) : u \in FragIds, b \in FragValues}
LibKinds == {"basic", "keyval"}
\* the argument of add: one object, or an iterable of objects
AddArgs == [iterable : {FALSE}, items : [1..1 -> DataUnits]]
           \cup [iterable : {TRUE}, items : UNION {[1..n -> DataUnits] : n \in 0..2}]
NoAdd == [iterable |-> TRUE, items |-> <<>>]

\* what the library keeps for an object
Stored(kind, item) == IF kind = "basic" THEN item ELSE item.blob

\* ObjectLibraryBasic.add / ObjectLibraryKeyVal.add: _lookup after the call
RECURSIVE ObjectLibrary_add(_, _, _)
ObjectLibrary_add(kind, lookup, obj) ==
    IF obj.iterable
    THEN IF obj.items = <<>>
         THEN lookup
         ELSE ObjectLibrary_add(kind,
                  DictPut(lookup, Head(obj.items).uid, Stored(kind, Head(obj.items))),
                  [iterable |-> TRUE, items |-> Tail(obj.items)])
    ELSE DictPut(lookup, obj.items[1].uid, Stored(kind, obj.items[1]))

LibIdle ==
    /\ lib_kind = "basic"
    /\ lib_lookup = EmptyDict
    /\ lib_call = NoAdd

LibInit ==
    /\ lib_kind \in LibKinds
    /\ lib_lookup = EmptyDict
    /\ lib_call = NoAdd

\* library.add(obj)
LibAdd ==
    /\ \E obj \in AddArgs :
          /\ lib_lookup' = ObjectLibrary_add(lib_kind, lib_lookup, obj)
          /\ lib_call' = obj
    /\ UNCHANGED lib_kind
    /\ UNCHANGED NotLib

(***************************************************************************)
(* network.py: dump_network_to_file / load_network_from_file.  pickle      *)
(* writes the class and the object's state, which for a class with         *)
(* __slots__ is the pair (instance dict, slot values); loading makes a new *)
(* object without calling __init__ and sets every saved attribute.  gzip   *)
(* gives back the bytes it was given.                                      *)
(***************************************************************************)
\* the names in ChemNetworkBin.__slots__ that this model holds
SlotNames == {"mol_list", "op_list", "rxn_list", "mol_map", "op_map", "rxn_map"}

\* the attributes of the store object
StoreState ==
    [mol_list |-> mol_list, op_list |-> op_list, rxn_list |-> rxn_list,
     mol_map |-> mol_map, op_map |-> op_map, rxn_map |-> rxn_map,
     mol_meta |-> mol_meta, op_meta |-> op_meta, rxn_meta |-> rxn_meta,
     mol_producers |-> mol_producers, mol_consumers |-> mol_consumers,
     compat_table |-> compat_table]

\* what ChemNetworkBin() sets up
NewStoreState ==
    [mol_list |-> <<>>, op_list |-> <<>>, rxn_list |-> <<>>,
     mol_map |-> EmptyDict, op_map |-> EmptyDict, rxn_map |-> EmptyDict,
     mol_meta |-> <<>>, op_meta |-> <<>>, rxn_meta |-> <<>>,
     mol_producers |-> EmptyDict, mol_consumers |-> EmptyDict,
     compat_table |-> <<>>]

Restrict(f, S) == [x \in DOMAIN f \cap S |-> f[x]]

\* pickle.dump(network): the class name and the state pair
dump_network(network) ==
    [cls |-> "ChemNetworkBin",
     dict |-> Restrict(network, DOMAIN network \ SlotNames),
     slots |-> Restrict(network, SlotNames)]

\* a load that runs the constructor and restores the slot values only
load_network_slots(blob) == DictUpdate(NewStoreState, blob.slots)

\* pickle.load: a new object whose attributes are the saved ones
load_network(blob) == DictUpdate(blob.dict, blob.slots)

LoadCall == [fn |-> "load_network_from_file", uid |-> "", op |-> -1,
             reactants |-> <<>>, products |-> <<>>]

\* the program dumps its store and goes on with the store loaded from the
\* file
DumpLoad ==
    /\ LET network == load_network(dump_network(StoreState))
       IN  /\ mol_list' = network.mol_list
           /\ op_list' = network.op_list
           /\ rxn_list' = network.rxn_list
           /\ mol_map' = network.mol_map
           /\ op_map' = network.op_map
           /\ rxn_map' = network.rxn_map
           /\ mol_meta' = network.mol_meta
           /\ op_meta' = network.op_meta
           /\ rxn_meta' = network.rxn_meta
           /\ mol_producers' = network.mol_producers
           /\ mol_consumers' = network.mol_consumers
           /\ compat_table' = network.compat_table
    /\ call' = LoadCall
    /\ ev' = "loaded"
    /\ ret' = -1
    /\ err' = "none"
    /\ UNCHANGED NotStore

(***************************************************************************)
(* metadata.py: a linear chain step1 >> step2 >> ... of filter and         *)
(* annotation steps.  RxnAnalysisStepCompound hands the stream produced by *)
(* one step to the next; fl_streams[k + 1] is what step k has put out when *)
(* it is exhausted or has raised.                                          *)
(***************************************************************************)
FilterStep(pred) == [kind |-> "filter", pred |-> pred, comp |-> "none", calc |-> NoCalc]
AnnotateStep(comp, calc) == [kind |-> "annotate", pred |-> {}, comp |-> comp, calc |-> calc]
\* calculators that give every entity the same result
ConstCalcs(kind, results) ==
    {c \in PipeCalcs(kind) : \E v \in results : \A x \in DOMAIN c.f : c.f[x] = v}
Steps == {FilterStep(pred) : pred \in Predicates}
         \cup {AnnotateStep("op", c) : c \in ConstCalcs("op", {None, Some(1)})}
         \cup {AnnotateStep("mol", c) : c \in ConstCalcs("mol", {Some(1)})}
Chains == UNION {[1..n -> Steps] : n \in 1..MaxSteps}

\* RxnAnalysisStepFilter.execute over a whole stream
FilterStream(stream, pred) ==
    [n \in DOMAIN stream |-> FilterItem(stream[n], pred).out]

\* what a step leaves behind: the items it yielded and whether it raised
Yielded(items, raised) == [items |-> items, raised |-> raised]

\* the loop of metalib_to_rxn_meta over a whole stream: the items yielded
\* up to the first lookup that raises
ProjectStream(info, stream) ==
    LET ok(n) == ProjectRxn(info, stream[n].rxn) # None
        good == {n \in DOMAIN stream : \A m \in 1..n : ok(m)}
    IN  Yielded([n \in good |-> Item(TheValue(ProjectRxn(info, stream[n].rxn)),
                                     stream[n].flag)],
                good # DOMAIN stream)

\* RxnAnalysisStepProp.execute and the consumption of its output: the
\* possible outcomes, one for each result logreduce can give
AnnotateStream(stream, comp, calc) ==
    LET taken == PassingItems(stream)
        frags == [i \in DOMAIN taken |->
                     Compositor(comp, calc, stream[taken[i]].rxn).state]
        maps == IF taken = <<>>
                THEN {None, Some(EmptyState)}
                ELSE {Some(x) : x \in Reductions(frags)}
        outcome(m) ==
            IF m = None
            THEN Yielded(<<>>, TRUE)
            ELSE IF BuildInfos(TheValue(m)) = None
            THEN Yielded(<<>>, TRUE)
            ELSE ProjectStream(TheValue(BuildInfos(TheValue(m))), stream)
    IN  {outcome(m) : m \in maps}

FlowIdle ==
    /\ fl_steps = <<>>
    /\ fl_streams = <<>>
    /\ fl_err = FALSE

FlowInit ==
    /\ fl_steps \in Chains
    /\ fl_streams \in {<<s>> : s \in Streams}
    /\ fl_err = FALSE

\* the next step of the chain is a filter and runs over its input
ApplyFilter ==
    /\ ~fl_err
    /\ Len(fl_streams) <= Len(fl_steps)
    /\ fl_steps[Len(fl_streams)].kind = "filter"
    /\ fl_streams' = Append(fl_streams,
           FilterStream(fl_streams[Len(fl_streams)], fl_steps[Len(fl_streams)].pred))
    /\ UNCHANGED <<fl_steps, fl_err>>
    /\ UNCHANGED NotFlow

\* the next step of the chain is an annotation and runs over its input
ApplyAnnotate ==
    /\ ~fl_err
    /\ Len(fl_streams) <= Len(fl_steps)
    /\ fl_steps[Len(fl_streams)].kind = "annotate"
    /\ \E r \in AnnotateStream(fl_streams[Len(fl_streams)],
                               fl_steps[Len(fl_streams)].comp,
                               fl_steps[Len(fl_streams)].calc) :
          /\ fl_streams' = Append(fl_streams, r.items)
          /\ fl_err' = r.raised
    /\ UNCHANGED fl_steps
    /\ UNCHANGED NotFlow

HistInit ==
    /\ call = NoCall
    /\ ev = "init"
    /\ ret = -1
    /\ err = "none"

Init ==
    /\ StoreInit
    /\ HistInit
    /\ KeysIdle
    /\ MergeIdle
    /\ StateIdle
    /\ ChainIdle
    /\ CompIdle
    /\ MmdIdle
    /\ PipeIdle
    /\ LibIdle
    /\ FlowIdle

AddMol ==
    /\ \E mol \in MolIds, meta \in MetaArgs : add_mol(mol, meta)
    /\ UNCHANGED NotStore
AddOp ==
    /\ \E op \in OpIds, meta \in MetaArgs : add_op(op, meta)
    /\ UNCHANGED NotStore
AddRxn ==
    /\ \E c \in RxnCalls, meta \in MetaArgs :
          add_rxn(c[1], c[2], c[3], meta)
    /\ UNCHANGED NotStore

Next == AddMol \/ AddOp \/ AddRxn

Spec == Init /\ [][Next]_vars

\* the store with dumps and loads between the inserts
NextDump == AddMol \/ AddOp \/ AddRxn \/ DumpLoad

SpecDump == Init /\ [][NextDump]_vars

(***************************************************************************)
(* Read accessors of the store.                                            *)
(***************************************************************************)
\* consumers(mol) / producers(mol) for a handle: None stands for KeyError
consumers(mol) ==
    IF mol \in DOMAIN mol_consumers THEN Some(mol_consumers[mol]) ELSE None
producers(mol) ==
    IF mol \in DOMAIN mol_producers THEN Some(mol_producers[mol]) ELSE None

IsPrefix(s, t) == Len(s) <= Len(t) /\ \A i \in 1..Len(s) : s[i] = t[i]
Triple(r) == <<r.operator, r.reactants, r.products>>
RxnHandles == 0..(Len(rxn_list) - 1)

(***************************************************************************)
(* Claims about the entity store.                                          *)
(***************************************************************************)

\* C1: add_mol of an identity already present, with whatever metadata,
\* returns the handle that resolves to it and leaves the whole store
\* (registries, maps, metadata, compatibility rows) as it was; the same for
\* add_op.
C1_IdempotentInsert ==
    [][ /\ (call'.fn = "add_mol" /\ call'.uid \in DOMAIN mol_map) =>
              /\ ret' = mol_map[call'.uid]
              /\ mol_list[ret' + 1] = call'.uid
              /\ err' = "none"
              /\ UNCHANGED store
        /\ (call'.fn = "add_op" /\ call'.uid \in DOMAIN op_map) =>
              /\ ret' = op_map[call'.uid]
              /\ op_list[ret' + 1] = call'.uid
              /\ err' = "none"
              /\ UNCHANGED store ]_vars

C1_Witness ==
    /\ ev = "mol_dup"
    /\ ret = 0
    /\ Len(mol_list) >= 2
    /\ Len(op_list) >= 1
    /\ mol_meta[1] # EmptyDict

\* C2: in every reachable state the handles in slot s of operator o's
\* compatibility row are exactly the handles of the registered molecules
\* that satisfy o.compat(m, s).
CompatSet(op, argnum) ==
    {mol_map[m] : m \in {x \in DOMAIN mol_map : Compat(op, x, argnum)}}
C2_CompatConvergence ==
    /\ Len(compat_table) = Len(op_list)
    /\ \A i \in DOMAIN op_list :
          /\ Len(compat_table[i]) = OpArity(op_list[i])
          /\ \A a \in 1..OpArity(op_list[i]) :
                Range(compat_table[i][a]) = CompatSet(op_list[i], a - 1)

C2_Witness ==
    /\ ev = "mol_new"
    /\ Len(op_list) = 2
    /\ Len(mol_list) = 2
    /\ \E i \in DOMAIN compat_table : \E a \in DOMAIN compat_table[i] :
          ret \in Range(compat_table[i][a])
    /\ \E i \in DOMAIN compat_table : \E a \in DOMAIN compat_table[i] :
          compat_table[i][a] = <<>>

\* C3: add_rxn with an operator, reactant or product handle outside its
\* registry fails with the out-of-range error and registers no reaction.
OutOfRange(op, reactants, products) ==
    \/ op >= Len(op_list)
    \/ \E i \in DOMAIN reactants : reactants[i] >= Len(mol_list)
    \/ \E i \in DOMAIN products : products[i] >= Len(mol_list)
C3_OutOfRangeFails ==
    [][ ( /\ call'.fn = "add_rxn"
          /\ OutOfRange(call'.op, call'.reactants, call'.products) ) =>
            /\ err' = "IndexError"
            /\ rxn_list' = rxn_list
            /\ rxn_map' = rxn_map ]_vars

\* C4: the handle add_rxn returns is the registry position of the exact
\* ordered triple (operator, reactants, products); no two positions hold the
\* same triple; a repeated triple leaves the registry as it was and a new
\* triple, also one that only permutes reactants or products, is appended
\* under a new handle.
C4_ReactionIdentity ==
    [][ (call'.fn = "add_rxn" /\ err' = "none") =>
            LET t == <<call'.op, call'.reactants, call'.products>> IN
            /\ ret' \in 0..(Len(rxn_list') - 1)
            /\ Triple(rxn_list'[ret' + 1]) = t
            /\ \A h \in 1..Len(rxn_list') :
                  Triple(rxn_list'[h]) = t => h = ret' + 1
            /\ IF \E h \in 1..Len(rxn_list) : Triple(rxn_list[h]) = t
               THEN rxn_list' = rxn_list
               ELSE /\ Len(rxn_list') = Len(rxn_list) + 1
                    /\ IsPrefix(rxn_list, rxn_list')
                    /\ ret' = Len(rxn_list) ]_vars

C4_Witness ==
    /\ ev = "rxn_new"
    /\ ret = 1
    /\ Len(rxn_list) = 2
    /\ rxn_list[1].operator = rxn_list[2].operator
    /\ rxn_list[1].products = rxn_list[2].products
    /\ rxn_list[1].reactants = <<0, 1>>
    /\ rxn_list[2].reactants = <<1, 0>>

\* C5: every step only extends the three registries, keeps every
\* identity-to-handle entry, gives a new entry the registry length before
\* the insert, and leaves list and map inverse to each other.
Inverse(list, map) ==
    /\ \A x \in DOMAIN map :
          map[x] \in 0..(Len(list) - 1) /\ list[map[x] + 1] = x
    /\ \A h \in 1..Len(list) :
          list[h] \in DOMAIN map /\ map[list[h]] = h - 1
Grows(list, map, list2, map2) ==
    /\ IsPrefix(list, list2)
    /\ \A x \in DOMAIN map : x \in DOMAIN map2 /\ map2[x] = map[x]
    /\ \A x \in DOMAIN map2 \ DOMAIN map : map2[x] = Len(list)
C5_HandleStability ==
    [][ /\ Grows(mol_list, mol_map, mol_list', mol_map')
        /\ Grows(op_list, op_map, op_list', op_map')
        /\ Grows(rxn_list, rxn_map, rxn_list', rxn_map')
        /\ Inverse(mol_list', mol_map')
        /\ Inverse(op_list', op_map')
        /\ Inverse(rxn_list', rxn_map')
        /\ ev' = "mol_new" => ret' = Len(mol_list) /\ mol_map'[mol_list'[ret' + 1]] = ret'
        /\ ev' = "op_new" => ret' = Len(op_list) /\ op_map'[op_list'[ret' + 1]] = ret'
        /\ ev' = "rxn_new" => ret' = Len(rxn_list) /\ rxn_map'[rxn_list'[ret' + 1]] = ret'
      ]_vars

C5_Witness ==
    /\ ev = "op_new"
    /\ ret = 1
    /\ Len(mol_list) >= 1
    /\ Len(rxn_list) >= 1

\* C6: consumers(m) and producers(m) are exactly the registered reactions
\* that have m among their reactants, respectively products; in particular
\* every registered reaction is listed for each of its reactants and
\* products.
C6_ProducerConsumerIndex ==
    /\ \A r \in RxnHandles :
          /\ \A m \in Range(rxn_list[r + 1].reactants) :
                consumers(m) # None /\ r \in TheValue(consumers(m))
          /\ \A m \in Range(rxn_list[r + 1].products) :
                producers(m) # None /\ r \in TheValue(producers(m))
    /\ \A m \in DOMAIN mol_consumers :
          mol_consumers[m] =
              {r \in RxnHandles : m \in Range(rxn_list[r + 1].reactants)}
    /\ \A m \in DOMAIN mol_producers :
          mol_producers[m] =
              {r \in RxnHandles : m \in Range(rxn_list[r + 1].products)}

\* C7: after add_rxn creates reaction r the reaction metadata registry holds
\* a copy of meta (an empty map for None) at index r, one entry per
\* registered reaction.
C7_RxnMetaStored ==
    [][ \A c \in RxnCalls, m \in MetaArgs :
           (ev' = "rxn_new" /\ add_rxn(c[1], c[2], c[3], m)) =>
               /\ Len(rxn_meta') = Len(rxn_list')
               /\ rxn_meta'[ret' + 1] = DictOf(m) ]_vars

InitKeys ==
    /\ StoreInit
    /\ HistInit
    /\ KeysInit
    /\ MergeIdle
    /\ StateIdle
    /\ ChainIdle
    /\ CompIdle
    /\ MmdIdle
    /\ PipeIdle
    /\ LibIdle
    /\ FlowIdle

NextKeys == KeyAnd /\ UNCHANGED NotKeys

SpecKeys == InitKeys /\ [][NextKeys]_vars

InitMerge ==
    /\ StoreInit
    /\ HistInit
    /\ KeysIdle
    /\ MergeInit
    /\ StateIdle
    /\ ChainIdle
    /\ CompIdle
    /\ MmdIdle
    /\ PipeIdle
    /\ LibIdle
    /\ FlowIdle

NextMerge == MergeOr /\ UNCHANGED NotMerge

SpecMerge == InitMerge /\ [][NextMerge]_vars

InitState ==
    /\ StoreInit
    /\ HistInit
    /\ KeysIdle
    /\ MergeIdle
    /\ StateInit
    /\ ChainIdle
    /\ CompIdle
    /\ MmdIdle
    /\ PipeIdle
    /\ LibIdle
    /\ FlowIdle

NextState == StateOr /\ UNCHANGED NotState

SpecState == InitState /\ [][NextState]_vars

InitChain ==
    /\ StoreInit
    /\ HistInit
    /\ KeysIdle
    /\ MergeIdle
    /\ StateIdle
    /\ ChainInit
    /\ CompIdle
    /\ MmdIdle
    /\ PipeIdle
    /\ LibIdle
    /\ FlowIdle

NextChain == ChainOr /\ UNCHANGED NotChain

SpecChain == InitChain /\ [][NextChain]_vars

InitComp ==
    /\ StoreInit
    /\ HistInit
    /\ KeysIdle
    /\ MergeIdle
    /\ StateIdle
    /\ ChainIdle
    /\ CompInit
    /\ MmdIdle
    /\ PipeIdle
    /\ LibIdle
    /\ FlowIdle

NextComp == Compose \/ ReadKeys

SpecComp == InitComp /\ [][NextComp]_vars

InitMmd ==
    /\ StoreInit
    /\ HistInit
    /\ KeysIdle
    /\ MergeIdle
    /\ StateIdle
    /\ ChainIdle
    /\ CompIdle
    /\ MmdInit
    /\ PipeIdle
    /\ LibIdle
    /\ FlowIdle

NextMmd == Mmd

SpecMmd == InitMmd /\ [][NextMmd]_vars

InitPipe ==
    /\ StoreInit
    /\ HistInit
    /\ KeysIdle
    /\ MergeIdle
    /\ StateIdle
    /\ ChainIdle
    /\ CompIdle
    /\ MmdIdle
    /\ PipeInit
    /\ LibIdle
    /\ FlowIdle

NextPipe == FilterYield \/ Reduce \/ ProjectBuild \/ ProjectYield \/ ProjectEnd

SpecPipe == InitPipe /\ [][NextPipe]_vars

InitLib ==
    /\ StoreInit
    /\ HistInit
    /\ KeysIdle
    /\ MergeIdle
    /\ StateIdle
    /\ ChainIdle
    /\ CompIdle
    /\ MmdIdle
    /\ PipeIdle
    /\ LibInit
    /\ FlowIdle

NextLib == LibAdd

SpecLib == InitLib /\ [][NextLib]_vars

InitFlow ==
    /\ StoreInit
    /\ HistInit
    /\ KeysIdle
    /\ MergeIdle
    /\ StateIdle
    /\ ChainIdle
    /\ CompIdle
    /\ MmdIdle
    /\ PipeIdle
    /\ LibIdle
    /\ FlowInit

NextFlow == ApplyFilter \/ ApplyAnnotate

SpecFlow == InitFlow /\ [][NextFlow]_vars

(***************************************************************************)
(* Claims about the metadata pipeline.                                     *)
(***************************************************************************)

\* C8: when some key occurs in both operands' key set of the same partition,
\* ka & kb raises a key-collision error that names the offending keys.
SharedKeys(a, b) ==
    (a.mol_keys \cap b.mol_keys) \cup (a.op_keys \cap b.op_keys)
        \cup (a.rxn_keys \cap b.rxn_keys)
C8_KeyCollisionRaises ==
    (kres # Pending /\ SharedKeys(ka, kb) # {}) =>
        /\ kres.status = "KeyError"
        /\ kres.conflict # {}
        /\ kres.conflict \subseteq SharedKeys(ka, kb)

\* C9: when the operands' key sets are disjoint within each partition,
\* ka & kb raises nothing and returns the partition-wise unions; a key in
\* different partitions of the two operands is no conflict.
C9_DisjointAnd ==
    (kres # Pending /\ SharedKeys(ka, kb) = {}) =>
        /\ kres.status = "ok"
        /\ kres.val.mol_keys = ka.mol_keys \cup kb.mol_keys
        /\ kres.val.op_keys = ka.op_keys \cup kb.op_keys
        /\ kres.val.rxn_keys = ka.rxn_keys \cup kb.rxn_keys

C9_Witness ==
    /\ kres.status = "ok"
    /\ SharedKeys(ka, kb) = {}
    /\ "mass" \in ka.mol_keys
    /\ "mass" \in kb.op_keys
    /\ kres.val.mol_keys = {"mass", "charge"}
    /\ kres.val.op_keys = {"mass"}

\* C10 as stated: when exactly one of a.data, b.data is empty, a | b carries
\* the non-empty side's map unchanged and the non-empty side's resolver.
ExactlyOneEmpty ==
    (DOMAIN in_a.data = {}) # (DOMAIN in_b.data = {})
NonEmptySide == IF DOMAIN in_a.data = {} THEN in_b ELSE in_a
C10_EmptySideOriginal ==
    (sret # "pending" /\ ExactlyOneEmpty) =>
        /\ MergeResult.data = NonEmptySide.data
        /\ MergeResult.resolver = NonEmptySide.resolver

\* C10 amended: when exactly one of a.data, b.data is empty, a | b carries
\* the non-empty side's map unchanged and the resolver of the right operand
\* b, whichever side is empty.
C10_EmptySideMerge ==
    (sret # "pending" /\ ExactlyOneEmpty) =>
        /\ MergeResult.data = NonEmptySide.data
        /\ MergeResult.resolver = in_b.resolver

C10_Witness ==
    /\ sret = "self"
    /\ DOMAIN in_b.data = {}
    /\ DOMAIN in_a.data = {"m1", "m2"}
    /\ in_a.resolver = "max"
    /\ in_b.resolver = "add"
    /\ MergeResult.data = in_a.data
    /\ MergeResult.resolver = "add"

\* C11: for two non-empty fragments a | b has the union of the handles of
\* a.data and b.data; a handle in both maps to a's resolver applied to
\* (a's value, b's value); a handle in one side only keeps that side's value.
BothNonEmpty == DOMAIN in_a.data # {} /\ DOMAIN in_b.data # {}
C11_PerKeyMerge ==
    (sret # "pending" /\ BothNonEmpty) =>
        /\ DOMAIN MergeResult.data = DOMAIN in_a.data \cup DOMAIN in_b.data
        /\ \A h \in DOMAIN in_a.data \cap DOMAIN in_b.data :
              MergeResult.data[h] =
                  Resolve(in_a.resolver, in_a.data[h], in_b.data[h])
        /\ \A h \in DOMAIN in_a.data \ DOMAIN in_b.data :
              MergeResult.data[h] = in_a.data[h]
        /\ \A h \in DOMAIN in_b.data \ DOMAIN in_a.data :
              MergeResult.data[h] = in_b.data[h]

C11_Witness ==
    /\ sret = "other"
    /\ in_a.resolver = "first"
    /\ in_b.resolver = "add"
    /\ DOMAIN in_a.data = {"m1", "m2"}
    /\ DOMAIN in_b.data = {"m1"}
    /\ in_a.data["m1"] = 1
    /\ in_b.data["m1"] = 2
    /\ MergeResult.data["m1"] = 1
    /\ MergeResult.data["m2"] = in_a.data["m2"]

\* C12: for each of the three partitions a | b has the union of both
\* sides' property keys; a key on both sides maps to the per-key merge of
\* the two fragments, a key on one side to that side's fragment unchanged;
\* nothing moves between partitions.
PartitionMerged(res, a, b) ==
    /\ DOMAIN res = DOMAIN a \cup DOMAIN b
    /\ \A k \in DOMAIN a \cap DOMAIN b : res[k] = OrValue(a[k], b[k])
    /\ \A k \in DOMAIN a \ DOMAIN b : res[k] = a[k]
    /\ \A k \in DOMAIN b \ DOMAIN a : res[k] = b[k]
C12_FullStateMerge ==
    st_res # None =>
        LET res == TheValue(st_res) IN
        /\ PartitionMerged(res.mol_info, st_a.mol_info, st_b.mol_info)
        /\ PartitionMerged(res.op_info, st_a.op_info, st_b.op_info)
        /\ PartitionMerged(res.rxn_info, st_a.rxn_info, st_b.rxn_info)

C12_Witness ==
    /\ st_res # None
    /\ DOMAIN st_a.mol_info = {"mass", "charge"}
    /\ DOMAIN st_b.mol_info = {"mass"}
    /\ DOMAIN st_a.op_info = {}
    /\ DOMAIN st_b.op_info = {"mass"}
    /\ DOMAIN st_a.rxn_info = {"mass"}
    /\ DOMAIN st_b.rxn_info = {}
    /\ st_a.mol_info["mass"].data # EmptyDict
    /\ st_b.mol_info["mass"].data # EmptyDict
    /\ st_a.mol_info["mass"] # st_b.mol_info["mass"]
    /\ TheValue(st_res).op_info = st_b.op_info
    /\ TheValue(st_res).mol_info["charge"] = st_a.mol_info["charge"]

\* C13: with a commutative and associative resolver, every grouping of every
\* permutation of three fresh fragments (each possibly empty) gives one and
\* the same handle-to-value map, at the fragment and at the state level:
\* each handle held by some fragment maps to the resolver applied over the
\* values the fragments hold for it.
ValuesAt(h) ==
    [i \in {i \in 1..3 : h \in DOMAIN <<fa, fb, fc>>[i]} |-> <<fa, fb, fc>>[i][h]]
Combined(h) ==
    LET v == ValuesAt(h)
        RECURSIVE Sum(_)
        Sum(I) == IF I = {} THEN 0
                  ELSE LET i == CHOOSE i \in I : TRUE IN v[i] + Sum(I \ {i})
    IN  IF fresolver = "max"
        THEN CHOOSE x \in Range(v) : \A y \in Range(v) : y <= x
        ELSE Sum(DOMAIN v)
C13_MergeOrderIndependent ==
    fres # None =>
        TheValue(fres) = [h \in DOMAIN fa \cup DOMAIN fb \cup DOMAIN fc |-> Combined(h)]

C13_Witness ==
    /\ fres # None
    /\ forder.perm = <<3, 1, 2>>
    /\ forder.grouping = "right"
    /\ forder.level = "state"
    /\ fresolver = "add"
    /\ fa = [h \in {"m1", "m2"} |-> IF h = "m1" THEN 1 ELSE 2]
    /\ fb = [h \in {"m1"} |-> 2]
    /\ fc = [h \in {"m1", "m2"} |-> 2]
    /\ TheValue(fres) = [h \in {"m1", "m2"} |-> IF h = "m1" THEN 5 ELSE 4]

\* C19: the compositor of a per-reaction calculator invokes the calculator
\* once, on the reaction, and returns a state whose rxn partition holds the
\* calculator's key with one entry for that reaction (none when the
\* calculator returns None) and whose mol and op partitions are empty; its
\* keys property puts the key in rxn_keys only.
RxnEntry(calc, rxn) ==
    [k \in {calc.key} |->
        SingleProp([r \in {RxnId(rxn)} |-> TheValue(calc.f[RxnId(rxn)])], calc.resolver)]
C19_RxnCompositorTargetsRxn ==
    /\ (c_kind = "rxn" /\ c_res # None) =>
          /\ c_calls = <<RxnId(c_rxn)>>
          /\ TheValue(c_res).mol_info = EmptyDict
          /\ TheValue(c_res).op_info = EmptyDict
          /\ TheValue(c_res).rxn_info \in
                IF c_calc.f[RxnId(c_rxn)] = None
                THEN {EmptyDict, [k \in {c_calc.key} |-> SingleProp(EmptyDict, c_calc.resolver)]}
                ELSE {RxnEntry(c_calc, c_rxn)}
    /\ (c_kind = "rxn" /\ c_keys # None) =>
          TheValue(c_keys) = KeyOutput({}, {}, {c_calc.key})

\* C20: a molecule compositor (with or without reaction context) returns a
\* state whose mol partition maps, under the calculator's key, exactly the
\* uids of the reactants and products the calculator returned a value for
\* to that value; an operator compositor returns one op-partition entry for
\* the reaction's operator, or no entry at all when the calculator returns
\* None.
ArgOf(kind, uid, rxn) ==
    IF kind \in {"molrxn", "oprxn"} THEN <<uid, RxnId(rxn)>> ELSE <<uid>>
C20_CompositorCoverage ==
    c_res # None =>
        LET res == TheValue(c_res)
            val(u) == c_calc.f[ArgOf(c_kind, u, c_rxn)]
            op == c_rxn.operator.item.uid
        IN  /\ c_kind \in {"mol", "molrxn"} =>
                  /\ DOMAIN res.mol_info = {c_calc.key}
                  /\ res.mol_info[c_calc.key].data =
                        [u \in {u \in Range(Uids(Mols(c_rxn))) : val(u) # None}
                            |-> TheValue(val(u))]
                  /\ res.op_info = EmptyDict
                  /\ res.rxn_info = EmptyDict
            /\ (c_kind \in {"op", "oprxn"} /\ val(op) = None) => res = EmptyState
            /\ (c_kind \in {"op", "oprxn"} /\ val(op) # None) =>
                  /\ DOMAIN res.op_info = {c_calc.key}
                  /\ res.op_info[c_calc.key].data = [u \in {op} |-> TheValue(val(op))]
                  /\ res.mol_info = EmptyDict
                  /\ res.rxn_info = EmptyDict

C20_Witness ==
    /\ c_res # None
    /\ c_kind = "molrxn"
    /\ c_rxn = R1
    /\ c_calc.f[<<"m2", RxnId(R1)>>] = None
    /\ c_calc.f[<<"m1", RxnId(R1)>>] = Some(2)
    /\ c_calc.f[<<"m3", RxnId(R1)>>] = Some(1)
    /\ TheValue(c_res).mol_info[c_calc.key].data =
          [u \in {"m1", "m3"} |-> IF u = "m1" THEN 2 ELSE 1]

\* an operator compositor whose calculator returned None has acted
C20_WitnessOpAbsent ==
    /\ c_res # None
    /\ c_kind = "op"
    /\ c_calc.f[<<c_rxn.operator.item.uid>>] = None
    /\ TheValue(c_res) = EmptyState

\* what both forms of C17 say apart from the colliding keys: a None side
\* gives the other side, and a key held by one map only keeps its value
MmdOneSided ==
    /\ mm_i1 = None => TheValue(mm_res) = mm_i2
    /\ mm_i2 = None => TheValue(mm_res) = mm_i1
    /\ (mm_i1 # None /\ mm_i2 # None) =>
          LET existing == TheValue(mm_i1)
              computed == TheValue(mm_i2)
              result == TheValue(TheValue(mm_res))
          IN  /\ DOMAIN result = DOMAIN existing \cup DOMAIN computed
              /\ \A k \in DOMAIN existing \ DOMAIN computed : result[k] = existing[k]
              /\ \A k \in DOMAIN computed \ DOMAIN existing : result[k] = computed[k]
MmdCollisions(winner) ==
    (mm_i1 # None /\ mm_i2 # None) =>
        \A k \in DOMAIN TheValue(mm_i1) \cap DOMAIN TheValue(mm_i2) :
            TheValue(TheValue(mm_res))[k] = TheValue(winner)[k]

\* C17 as stated: _mmd(existing, computed) holds the existing value for a
\* key both maps contain; keys of one map keep their value; with one map
\* None the other is returned.
C17_ExistingWins ==
    mm_res # None => (MmdOneSided /\ MmdCollisions(mm_i1))

\* C17 amended: _mmd(existing, computed) holds the computed value for a key
\* both maps contain; keys of one map keep their value; with one map None
\* the other is returned.
C17_ComputedWins ==
    mm_res # None => (MmdOneSided /\ MmdCollisions(mm_i2))

C17_Witness ==
    /\ mm_res # None
    /\ mm_i1 = Some([k \in {"mass", "charge"} |-> 1])
    /\ mm_i2 = Some([k \in {"mass"} |-> 2])
    /\ TheValue(mm_res) = Some([k \in {"mass", "charge"} |-> IF k = "mass" THEN 2 ELSE 1])

\* C14: the filter step emits one item per input item, in input order, with
\* the same reaction; an item whose flag is False is emitted False without
\* the predicate being evaluated on it; an item whose flag is True is
\* emitted with the predicate's result on its reaction; once the filter is
\* exhausted every input item has been emitted.
C14_FilterStep ==
    /\ Len(f_out) <= Len(p_in)
    /\ a_phase \notin {"idle", "collect"} => Len(f_out) = Len(p_in)
    /\ \A n \in DOMAIN f_out :
          /\ f_out[n].rxn = p_in[n].rxn
          /\ ~p_in[n].flag => (~f_out[n].flag /\ n \notin Range(pred_log))
          /\ p_in[n].flag =>
                /\ f_out[n].flag = (RxnId(p_in[n].rxn) \in p_pred)
                /\ Cardinality({i \in DOMAIN pred_log : pred_log[i] = n}) = 1

C14_Witness ==
    /\ Len(p_in) = 3
    /\ Len(f_out) = 3
    /\ p_in[1] = Item(R1, TRUE)
    /\ p_in[2] = Item(R2, TRUE)
    /\ p_in[3] = Item(R1, FALSE)
    /\ p_pred = {RxnId(R1)}
    /\ f_out = <<Item(R1, TRUE), Item(R2, FALSE), Item(R1, FALSE)>>
    /\ pred_log = <<1, 2>>

\* C15: the annotation step invokes its compositor once for each item whose
\* flag is True and never for an item whose flag is False, so the merged
\* state holds, for each identity, the contributions of the passing
\* reactions only (with the adding resolver: how many passing reactions
\* gave a value for it).
Contributors(uid) ==
    {n \in DOMAIN f_out :
        /\ f_out[n].flag
        /\ uid \in (IF p_kind = "mol" THEN Range(Uids(Mols(f_out[n].rxn)))
                     ELSE {f_out[n].rxn.operator.item.uid})
        /\ p_calc.f[<<uid>>] # None}
Aggregate(info) ==
    /\ DOMAIN info \subseteq {p_calc.key}
    /\ \A uid \in MolIds \cup OpIds :
          IF Contributors(uid) = {}
          THEN \A k \in DOMAIN info : uid \notin DOMAIN info[k].data
          ELSE /\ p_calc.key \in DOMAIN info
               /\ uid \in DOMAIN info[p_calc.key].data
               /\ info[p_calc.key].data[uid] = Cardinality(Contributors(uid))
C15_AnnotateOnlyPassing ==
    a_phase \notin {"idle", "collect"} =>
        /\ \A n \in DOMAIN f_out :
              Cardinality({i \in DOMAIN comp_log : comp_log[i] = n}) =
                  IF f_out[n].flag THEN 1 ELSE 0
        /\ prop_map # None =>
              /\ Aggregate(IF p_kind = "mol" THEN TheValue(prop_map).mol_info
                                             ELSE TheValue(prop_map).op_info)
              /\ (IF p_kind = "mol" THEN TheValue(prop_map).op_info
                                    ELSE TheValue(prop_map).mol_info) = EmptyDict
              /\ TheValue(prop_map).rxn_info = EmptyDict

\* filter_step >> annotate_step where the filter passes R1 and rejects R2
C15_Witness ==
    /\ a_phase = "project"
    /\ p_in = <<Item(R1, TRUE), Item(R2, TRUE)>>
    /\ p_pred = {RxnId(R1)}
    /\ p_kind = "mol"
    /\ \A u \in MolIds : p_calc.f[<<u>>] = Some(1)
    /\ comp_log = <<1>>
    /\ TheValue(prop_map).mol_info["mass"].data = [u \in MolIds |-> 1]

\* the annotation step has ended: its output was read to the end or it raised
AnnotateEnded == a_phase \in {"done", "failed"}
\* the view of an entity carries the merged value under the compositor's key
Carries(packet) ==
    Contributors(packet.item.uid) # {} =>
        /\ packet.meta # None
        /\ p_calc.key \in DOMAIN TheValue(packet.meta)
        /\ TheValue(packet.meta)[p_calc.key] = Cardinality(Contributors(packet.item.uid))

\* C16: for a non-empty stream with a passing reaction whose compositor
\* yields a value, the output of the annotation step holds every input
\* reaction once, in input order, with its flag unchanged, and each view
\* carries the merged value under the compositor's key for its identity.
C16_ProjectsOntoEvery ==
    (AnnotateEnded /\ \E uid \in MolIds \cup OpIds : Contributors(uid) # {}) =>
        /\ a_err = "none"
        /\ Len(a_out) = Len(f_out)
        /\ \A n \in DOMAIN a_out :
              /\ a_out[n].flag = f_out[n].flag
              /\ RxnId(a_out[n].rxn) = RxnId(f_out[n].rxn)
              /\ IF p_kind = "mol"
                 THEN \A i \in DOMAIN Mols(a_out[n].rxn) : Carries(Mols(a_out[n].rxn)[i])
                 ELSE Carries(a_out[n].rxn.operator)

\* some identity a reaction of the stream refers to has no entry in the
\* merged state
MissingEntry ==
    /\ prop_map # None
    /\ \E n \in DOMAIN f_out :
          \/ \E k \in DOMAIN TheValue(prop_map).mol_info, i \in DOMAIN Mols(f_out[n].rxn) :
                Mols(f_out[n].rxn)[i].item.uid \notin DOMAIN TheValue(prop_map).mol_info[k].data
          \/ TheValue(prop_map).mol_info = EmptyDict
          \/ \E k \in DOMAIN TheValue(prop_map).op_info :
                f_out[n].rxn.operator.item.uid \notin DOMAIN TheValue(prop_map).op_info[k].data
          \/ TheValue(prop_map).op_info = EmptyDict
          \/ TheValue(prop_map).rxn_info = EmptyDict

\* C18: when the merged state has no entry for some molecule, operator or
\* reaction identity a reaction of the stream refers to, the annotation step
\* does not fail: it emits every reaction, and an entity without an entry
\* keeps its existing metadata.
C18_MissingIsNoMetadata ==
    (AnnotateEnded /\ MissingEntry) =>
        /\ a_err = "none"
        /\ Len(a_out) = Len(f_out)
        /\ \A n \in DOMAIN a_out :
              /\ a_out[n].flag = f_out[n].flag
              /\ Contributors(f_out[n].rxn.operator.item.uid) = {} =>
                    a_out[n].rxn.operator = f_out[n].rxn.operator
              /\ \A i \in DOMAIN Mols(f_out[n].rxn) :
                    Contributors(Mols(f_out[n].rxn)[i].item.uid) = {} =>
                        Mols(a_out[n].rxn)[i] = Mols(f_out[n].rxn)[i]
              /\ a_out[n].rxn.reaction_meta = f_out[n].rxn.reaction_meta

\* C21: in filter_step >> annotate_step the annotation step has consumed
\* every item of the upstream stream, so every predicate evaluation of the
\* filter and every compositor invocation has happened, before its output
\* generator is handed out, is started or yields anything; the filter step
\* has emitted item k when it has consumed items 1..k only.
UpstreamConsumed ==
    /\ Len(f_out) = Len(p_in)
    /\ \A n \in DOMAIN p_in : p_in[n].flag => n \in Range(pred_log)
    /\ \A n \in DOMAIN f_out : f_out[n].flag => n \in Range(comp_log)
C21_AnnotationBarrier ==
    /\ (a_phase \in {"project", "emit", "done", "failed"} \/ a_out # <<>>) =>
          UpstreamConsumed
    /\ a_phase = "collect" =>
          /\ comp_log = <<>>
          /\ \A i \in DOMAIN pred_log : pred_log[i] <= Len(f_out)

\* the consumer has asked for the first output item of a three-item stream
\* of which two items pass the filter
C21_Witness ==
    /\ a_phase \in {"emit", "failed"}
    /\ a_err # "reduce_empty"
    /\ Len(p_in) = 3
    /\ pred_log = <<1, 2, 3>>
    /\ comp_log = <<1, 3>>

\* C22: add(y) with y.uid already in the library does not store y: the
\* library's length is unchanged and the uid still maps to what was stored
\* for it before (the object, resp. the blob).
C22_AddIfAbsent ==
    [][ LET present == {i \in DOMAIN lib_call'.items :
                           lib_call'.items[i].uid \in DOMAIN lib_lookup}
        IN  /\ \A i \in present :
                  lib_lookup'[lib_call'.items[i].uid] = lib_lookup[lib_call'.items[i].uid]
            /\ present = DOMAIN lib_call'.items =>
                  Cardinality(DOMAIN lib_lookup') = Cardinality(DOMAIN lib_lookup)
      ]_vars

StrictlyIncreasing(seq) ==
    \A i, j \in DOMAIN seq : i < j => seq[i] < seq[j]
C24_CompatOrdered ==
    /\ Len(compat_table) = Len(op_list)
    /\ \A i \in DOMAIN compat_table :
          /\ Len(compat_table[i]) = OpArity(op_list[i])
          /\ \A a \in DOMAIN compat_table[i] :
                /\ StrictlyIncreasing(compat_table[i][a])
                /\ Range(compat_table[i][a]) \subseteq 0..(Len(mol_list) - 1)
          /\ (op_list[i] = "O" /\ mol_list = <<"m1", "m2", "m3">>) =>
                compat_table[i] = << <<0, 1>>, <<1, 2>> >>

\* m1, m2, m3 and then O have been inserted
C24_Witness ==
    /\ mol_list = <<"m1", "m2", "m3">>
    /\ op_list = <<"O">>
    /\ ev = "op_new"
    /\ compat_table = << << <<0, 1>>, <<1, 2>> >> >>

\* O came first and the molecules after it
C24_WitnessOpFirst ==
    /\ mol_list = <<"m1", "m2", "m3">>
    /\ op_list = <<"O">>
    /\ ev = "mol_new"
    /\ compat_table = << << <<0, 1>>, <<1, 2>> >> >>

\* C25: a call to add_rxn, whether it creates a reaction or returns an
\* existing one, leaves the molecule registry, the operator registry, the
\* molecule and operator metadata and the compatibility table as they were;
\* so the operator metadata registry has one entry per operator, and the
\* entry created for a new operator sits at the operator's handle.
C25_AddRxnFrame ==
    [][ /\ call'.fn = "add_rxn" =>
              /\ mol_list' = mol_list /\ mol_map' = mol_map
              /\ op_list' = op_list /\ op_map' = op_map
              /\ mol_meta' = mol_meta
              /\ op_meta' = op_meta
              /\ compat_table' = compat_table
        /\ Len(op_meta') = Len(op_list')
        /\ ev' = "op_new" => Len(op_meta') = ret' + 1
      ]_vars

C26_WitnessAnnotate ==
    /\ Len(fl_steps) = 2
    /\ fl_steps[1].kind = "filter"
    /\ fl_steps[2].kind = "annotate"
    /\ Len(fl_streams) = 3
    /\ Len(fl_streams[1]) = 3

\* C27: add_rxn with an empty reactant or product sequence, for a triple
\* not yet registered, raises the error of max() on an empty sequence and
\* leaves the reaction registry, the reaction map and every metadata
\* registry as they were.
C27_EmptySideRaises ==
    [][ (/\ call'.fn = "add_rxn"
         /\ call'.reactants = <<>> \/ call'.products = <<>>
         /\ [operator |-> call'.op, reactants |-> call'.reactants,
             products |-> call'.products] \notin DOMAIN rxn_map) =>
            /\ err' = "ValueError"
            /\ rxn_list' = rxn_list
            /\ rxn_map' = rxn_map
            /\ mol_meta' = mol_meta
            /\ op_meta' = op_meta
            /\ rxn_meta' = rxn_meta
      ]_vars

\* a store holding a reaction has refused a reaction without reactants
C27_Witness ==
    /\ ev = "rxn_err"
    /\ err = "ValueError"
    /\ call.fn = "add_rxn"
    /\ call.reactants = <<>>
    /\ call.products # <<>>
    /\ Len(rxn_list) = 1
    /\ Len(op_meta) = 2

TypeOK ==
    /\ NumEntities <= MaxEntities
    /\ Len(rxn_list) <= MaxRxns
====
